---------------------------- MODULE Spec2Model ----------------------------
(***************************************************************************)
(* Course management application (Flask + SQLAlchemy, src/app.py and      *)
(* src/models.py).                                                         *)
(*                                                                         *)
(* State: the four tables (User, Course, Student, Enrollment), the        *)
(* cookie session of each client, and the enrol requests that have run    *)
(* their existence check but not yet committed.  Rows are never updated   *)
(* or deleted and primary keys are auto-assigned integers, so a table is a *)
(* sequence and a row's id is its position.                                *)
(*                                                                         *)
(* Storage is the store configured at app.py:18, SQLite: UNIQUE and        *)
(* NOT NULL constraints are enforced, FOREIGN KEY clauses are not (no      *)
(* PRAGMA foreign_keys is ever issued), and an INTEGER column keeps a      *)
(* text value that does not look like a number.                            *)
(***************************************************************************)
EXTENDS Integers, Sequences, FiniteSets, TLC

\* ------------------------------------------------------------ bounds
\* caps on the tables.  With the inputs below the store's own UNIQUE
\* constraints and the number of clients keep every table under its cap.
MaxUsers == 3
MaxCourses == 2
MaxStudents == 3
MaxEnrollments == 3

\* ------------------------------------------------------------ inputs
Clients == {"c1", "c2"}
\* the people who register: each signs up under their own name and address
People == {[name |-> "Ann", email |-> "ann@x.com"],
           [name |-> "Bob", email |-> "bob@x.com"]}
Emails == {p.email : p \in People}
Passwords == {"p1", "p2"}
Codes == {"CS101"}
StudentNumbers == {"S1", "S2"}
CreditTexts == {"0", "-1", "abc"}
\* ids a form may carry.  The store checks no foreign key, so whether an id
\* names a row depends on the state only: every id is sent both before and
\* after the row it would name exists.
UserIdInputs == {1, 2}
StudentIdInputs == {1}
CourseIdInputs == {1}

\* request.form of POST /register; the role field is optional
RegisterForms ==
    {[name |-> p.name, email |-> p.email, password |-> "p1",
      confirm_password |-> pw, role |-> r] :
        p \in People, pw \in Passwords, r \in {"instructor", "admin"}}
    \cup {[name |-> p.name, email |-> p.email, password |-> "p1",
           confirm_password |-> pw] : p \in People, pw \in Passwords}
\* request.form of POST /login
LoginForms == [email: Emails, password: Passwords]
\* request.form of POST /course/create; credits is optional, and a client
\* may add an instructor_id field of its own
CourseForms ==
    [code: Codes, credits: CreditTexts, instructor_id: UserIdInputs]
    \cup [code: Codes, instructor_id: UserIdInputs]
    \cup [code: Codes]
\* request.form of POST /student/create
StudentForms == [email: Emails, student_id: StudentNumbers]
\* request.form of POST /enroll; an id arrives as digits and the INTEGER
\* columns it is compared with and stored in take it as that number
EnrollForms == [student_id: StudentIdInputs, course_id: CourseIdInputs]

VARIABLES
    users,        \* User table: rows [name, email, password, role]
    courses,      \* Course table: rows [code, credits, instructor_id]
    students,     \* Student table: rows [email, student_id]
    enrollments,  \* Enrollment table: rows [student_id, course_id]
    session,      \* client -> the client's Flask session (a dict)
    pending,      \* client -> <<>> or the enrol form checked, not yet committed
    response      \* the handler step just taken and what it answered

tables == <<users, courses, students, enrollments>>
vars == <<users, courses, students, enrollments, session, pending, response>>

\* ------------------------------------------------------------ values
DefaultCredits == 3
None == "None"
EmptySession == [k \in {} |-> None]
NoRequest == <<>>

\* werkzeug.security: the stored hash is opaque to the application; only
\* check_password_hash relates it to a password.
generate_password_hash(pw) == [method |-> "sha256", digest_of |-> pw]
check_password_hash(hash, pw) == hash = generate_password_hash(pw)

\* SQLite storage of a value bound to an INTEGER column: text that looks
\* like an integer is converted, other text is stored as it is.
IsNumericText(t) == t \in {"0", "-1"}
NumericValue(t) == CASE t = "0" -> 0 [] t = "-1" -> -1
IntegerValue(n) == [class |-> "integer", int |-> n, text |-> ""]
IntegerAffinity(t) ==
    IF IsNumericText(t) THEN IntegerValue(NumericValue(t))
    ELSE [class |-> "text", int |-> 0, text |-> t]

\* dict.get / request.form.get
SessionGet(s, key) == IF key \in DOMAIN s THEN s[key] ELSE None

\* ------------------------------------------------------------ queries
Ids(table) == 1..Len(table)
\* Model.query.filter_by(field=value).first(): the id of the first match, 0 if none
UserByEmail(email) ==
    IF \E i \in Ids(users) : users[i].email = email
    THEN CHOOSE i \in Ids(users) :
            /\ users[i].email = email
            /\ \A j \in Ids(users) : users[j].email = email => i <= j
    ELSE 0
UserByEmailExists(email) == \E i \in Ids(users) : users[i].email = email
CourseByCode(code) == \E i \in Ids(courses) : courses[i].code = code
\* filter_by(email=None) compares with NULL and email is NOT NULL: no row
StudentByEmail(email) ==
    IF email # None /\ \E i \in Ids(students) : students[i].email = email
    THEN CHOOSE i \in Ids(students) :
            /\ students[i].email = email
            /\ \A j \in Ids(students) : students[j].email = email => i <= j
    ELSE 0
StudentByNumber(number) ==
    \E i \in Ids(students) : students[i].student_id = number
EnrollmentExists(sid, cid) ==
    \E i \in Ids(enrollments) :
        enrollments[i].student_id = sid /\ enrollments[i].course_id = cid
\* Model.query.filter_by(...).count()
CoursesOf(uid) ==
    Cardinality({i \in Ids(courses) : courses[i].instructor_id = uid})
EnrollmentsOf(sid) ==
    Cardinality({i \in Ids(enrollments) : enrollments[i].student_id = sid})

\* ------------------------------------------------------------ guards
login_required(s) == "user_id" \in DOMAIN s
\* role_required that only looks for the key (mutation of role_required)
role_required_unchecked(s, role) == "user_role" \in DOMAIN s
role_required(s, role) == "user_role" \in DOMAIN s /\ s["user_role"] = role

Respond(c, op, outcome, n) ==
    response' = [client |-> c, op |-> op, outcome |-> outcome, user_courses |-> n]

\* ------------------------------------------------------------ handlers
\* register, create_course and create_student insert under a UNIQUE
\* constraint of the store (models.py: User.email, Course.code, Student.email,
\* Student.student_id): a request that loses a race fails at its commit and
\* stores nothing, so each of them is taken as one step.  enroll_student has
\* no such constraint behind it and is taken in two steps, below.
\* POST /login
\* login that stores the address as the name (mutation of LoginSession)
LoginSessionEmailAsName(user_id) ==
    [user_id |-> user_id,
     user_name |-> users[user_id].email,
     user_role |-> users[user_id].role]
LoginSession(user_id) ==
    [user_id |-> user_id,
     user_name |-> users[user_id].name,
     user_role |-> users[user_id].role]

Login(c, form) ==
    LET user == UserByEmail(form.email) IN
    /\ IF "user_id" \in DOMAIN session[c]
       THEN /\ Respond(c, "login", "AlreadyLoggedIn", 0)
            /\ UNCHANGED session
       ELSE IF user # 0 /\ check_password_hash(users[user].password, form.password)
       THEN /\ session' = [session EXCEPT ![c] = LoginSession(user)]
            /\ Respond(c, "login", "LoginOk", 0)
       ELSE /\ Respond(c, "login", "InvalidCredentials", 0)
            /\ UNCHANGED session
    /\ UNCHANGED <<tables, pending>>

\* GET /logout
Logout(c) ==
    /\ session' = [session EXCEPT ![c] = EmptySession]
    /\ Respond(c, "logout", "LoggedOut", 0)
    /\ UNCHANGED <<tables, pending>>

\* POST /register
NewUser(form) ==
    [name |-> form.name,
     email |-> form.email,
     password |-> generate_password_hash(form.password),
     role |-> IF "role" \in DOMAIN form THEN form.role ELSE "student"]

\* register without the lookup of the email (mutation of RegisterOutcome)
RegisterOutcomeNoLookup(s, form) ==
    IF "user_id" \in DOMAIN s THEN "AlreadyLoggedIn"
    ELSE IF form.password # form.confirm_password THEN "PasswordMismatch"
    ELSE "Registered"
RegisterOutcome(s, form) ==
    IF "user_id" \in DOMAIN s THEN "AlreadyLoggedIn"
    ELSE IF form.password # form.confirm_password THEN "PasswordMismatch"
    ELSE IF UserByEmailExists(form.email) THEN "EmailTaken"
    ELSE "Registered"

Register(c, form) ==
    LET outcome == RegisterOutcome(session[c], form) IN
    /\ IF outcome = "Registered"
       THEN /\ Len(users) < MaxUsers
            /\ users' = Append(users, NewUser(form))
       ELSE UNCHANGED users
    /\ Respond(c, "register", outcome, 0)
    /\ UNCHANGED <<courses, students, enrollments, session, pending>>

\* GET /dashboard
UserCourses(s) ==
    IF s["user_role"] = "instructor" THEN CoursesOf(s["user_id"])
    ELSE IF s["user_role"] = "student"
    THEN LET student == StudentByEmail(SessionGet(s, "user_email")) IN
         IF student # 0 THEN EnrollmentsOf(student) ELSE 0
    ELSE 0

Dashboard(c) ==
    /\ IF ~login_required(session[c])
       THEN Respond(c, "dashboard", "Unauthenticated", 0)
       ELSE Respond(c, "dashboard", "Dashboard", UserCourses(session[c]))
    /\ UNCHANGED <<tables, session, pending>>

\* POST /course/create
\* a course whose owner is read from the form (mutation of NewCourse)
NewCourseFromForm(s, form) ==
    [code |-> form.code,
     credits |-> IF "credits" \in DOMAIN form
                 THEN IntegerAffinity(form.credits)
                 ELSE IntegerValue(DefaultCredits),
     instructor_id |-> IF "instructor_id" \in DOMAIN form
                       THEN form.instructor_id
                       ELSE s["user_id"]]
NewCourse(s, form) ==
    [code |-> form.code,
     credits |-> IF "credits" \in DOMAIN form
                 THEN IntegerAffinity(form.credits)
                 ELSE IntegerValue(DefaultCredits),
     instructor_id |-> s["user_id"]]

CreateCourseOutcome(s, form) ==
    IF ~login_required(s) THEN "Unauthenticated"
    ELSE IF ~role_required(s, "instructor") THEN "Forbidden"
    ELSE IF CourseByCode(form.code) THEN "CodeTaken"
    ELSE "CourseCreated"

CreateCourse(c, form) ==
    LET outcome == CreateCourseOutcome(session[c], form) IN
    /\ IF outcome = "CourseCreated"
       THEN /\ Len(courses) < MaxCourses
            /\ courses' = Append(courses, NewCourse(session[c], form))
       ELSE UNCHANGED courses
    /\ Respond(c, "create_course", outcome, 0)
    /\ UNCHANGED <<users, students, enrollments, session, pending>>

\* POST /student/create
NewStudent(form) == [email |-> form.email, student_id |-> form.student_id]

\* create_student with its two lookups swapped (mutation of
\* CreateStudentOutcome)
CreateStudentOutcomeNumberFirst(s, form) ==
    IF ~login_required(s) THEN "Unauthenticated"
    ELSE IF ~role_required(s, "admin") THEN "Forbidden"
    ELSE IF StudentByNumber(form.student_id) THEN "StudentIdTaken"
    ELSE IF StudentByEmail(form.email) # 0 THEN "EmailTaken"
    ELSE "StudentCreated"
CreateStudentOutcome(s, form) ==
    IF ~login_required(s) THEN "Unauthenticated"
    ELSE IF ~role_required(s, "admin") THEN "Forbidden"
    ELSE IF StudentByEmail(form.email) # 0 THEN "EmailTaken"
    ELSE IF StudentByNumber(form.student_id) THEN "StudentIdTaken"
    ELSE "StudentCreated"

CreateStudent(c, form) ==
    LET outcome == CreateStudentOutcome(session[c], form) IN
    /\ IF outcome = "StudentCreated"
       THEN /\ Len(students) < MaxStudents
            /\ students' = Append(students, NewStudent(form))
       ELSE UNCHANGED students
    /\ Respond(c, "create_student", outcome, 0)
    /\ UNCHANGED <<users, courses, enrollments, session, pending>>

\* POST /enroll.  Nothing in the store keeps two rows of one pair apart, so
\* the handler is taken in its two steps: the lookup of the pair, and the
\* insert and commit, with other requests free to run in between.  The
\* outcome "Checked" is not an answer to the client: it marks a request whose
\* lookup found no row and whose insert is still to come.
NewEnrollment(form) ==
    [student_id |-> form.student_id, course_id |-> form.course_id]

EnrollOutcome(s, form) ==
    IF ~login_required(s) THEN "Unauthenticated"
    ELSE IF ~role_required(s, "admin") THEN "Forbidden"
    ELSE IF EnrollmentExists(form.student_id, form.course_id)
    THEN "AlreadyEnrolled"
    ELSE "Checked"

EnrollCheck(c, form) ==
    LET outcome == EnrollOutcome(session[c], form) IN
    /\ pending[c] = NoRequest
    /\ IF outcome = "Checked"
       THEN pending' = [pending EXCEPT ![c] = <<form>>]
       ELSE UNCHANGED pending
    /\ Respond(c, "enroll", outcome, 0)
    /\ UNCHANGED <<tables, session>>

EnrollCommit(c) ==
    /\ pending[c] # NoRequest
    /\ Len(enrollments) < MaxEnrollments
    /\ enrollments' = Append(enrollments, NewEnrollment(pending[c][1]))
    /\ pending' = [pending EXCEPT ![c] = NoRequest]
    /\ Respond(c, "enroll", "Enrolled", 0)
    /\ UNCHANGED <<users, courses, students, session>>

\* ------------------------------------------------------------ behaviour
Init ==
    /\ users = <<>>
    /\ courses = <<>>
    /\ students = <<>>
    /\ enrollments = <<>>
    /\ session = [c \in Clients |-> EmptySession]
    /\ pending = [c \in Clients |-> NoRequest]
    /\ response = [client |-> "c1", op |-> "none", outcome |-> "none", user_courses |-> 0]

Next ==
    \/ \E c \in Clients, form \in RegisterForms : Register(c, form)
    \/ \E c \in Clients, form \in LoginForms : Login(c, form)
    \/ \E c \in Clients : Logout(c)
    \/ \E c \in Clients : Dashboard(c)
    \/ \E c \in Clients, form \in CourseForms : CreateCourse(c, form)
    \/ \E c \in Clients, form \in StudentForms : CreateStudent(c, form)
    \/ \E c \in Clients, form \in EnrollForms : EnrollCheck(c, form)
    \/ \E c \in Clients : EnrollCommit(c)

Spec == Init /\ [][Next]_vars

\* ------------------------------------------------------------ properties
Anonymous(c) == DOMAIN session[c] = {}
AnonymousNext(c) == DOMAIN session'[c] = {}
\* the role each guarded write operation requires
RequiredRole(op) == IF op = "create_course" THEN "instructor" ELSE "admin"
GuardedWrites == {"create_course", "create_student", "enroll"}
PairCount(sid, cid) ==
    Cardinality({i \in Ids(enrollments) :
        enrollments[i].student_id = sid /\ enrollments[i].course_id = cid})

\* C1: a guarded write (createCourse, createStudent, enrollStudent) that
\* arrives without a session answers Unauthenticated, one that arrives with
\* a session of another role than the required one answers Forbidden, and in
\* both cases no table changes and no enrolment is left in flight.
GuardShortCircuit ==
    [][(response'.op \in GuardedWrites /\ response'.outcome # "Enrolled") =>
        LET s == session[response'.client]
            role == RequiredRole(response'.op)
        IN  /\ "user_id" \notin DOMAIN s =>
                /\ response'.outcome = "Unauthenticated"
                /\ tables' = tables
                /\ pending' = pending
            /\ ("user_id" \in DOMAIN s /\ s["user_role"] # role) =>
                /\ response'.outcome = "Forbidden"
                /\ tables' = tables
                /\ pending' = pending]_vars

StudentSessionForbidden ==
    /\ response.op = "create_student"
    /\ response.outcome = "Forbidden"
    /\ "user_role" \in DOMAIN session[response.client]
    /\ session[response.client]["user_role"] = "student"

\* C2 (as stated): every register request whose email is that of a stored
\* User fails with EmailTaken and leaves the User table as it was.
RegisterDuplicateAlwaysEmailTaken ==
    [][response'.op = "register" =>
        \A form \in RegisterForms :
            ((\E i \in Ids(users) : users[i].email = form.email)
                /\ Register(response'.client, form)) =>
                /\ response'.outcome = "EmailTaken"
                /\ users' = users]_vars

\* C2 (amended): every register request whose email is that of a stored User
\* leaves the User table as it was; it fails with EmailTaken when it comes
\* from a client that is not logged in and its password and confirmation
\* agree.  (A register step that leaves the User table as it was and either
\* comes from a logged-in client or answers EmailTaken meets this whatever
\* its form was; the forms are gone through for the other register steps.)
RegisterDuplicateAddsNoRow ==
    [][(/\ response'.op = "register"
        /\ \/ users' # users
           \/ /\ Anonymous(response'.client)
              /\ response'.outcome # "EmailTaken") =>
        \A form \in RegisterForms :
            ((\E i \in Ids(users) : users[i].email = form.email)
                /\ Register(response'.client, form)) =>
                /\ users' = users
                /\ (/\ Anonymous(response'.client)
                    /\ form.password = form.confirm_password) =>
                        response'.outcome = "EmailTaken"]_vars

RegisterEmailTakenSeen ==
    /\ response.op = "register"
    /\ response.outcome = "EmailTaken"
    /\ Len(users) >= 1

\* C3: a createCourse call that succeeds adds one Course whose instructor_id
\* is the user_id of the caller's session, whatever the form carries; and
\* every stored Course's instructor_id is the id of a stored User.
CourseOwnedByCaller ==
    /\ [](\A i \in Ids(courses) : courses[i].instructor_id \in Ids(users))
    /\ [][(response'.op = "create_course" /\ response'.outcome = "CourseCreated") =>
            /\ Len(courses') = Len(courses) + 1
            /\ courses'[Len(courses')].instructor_id
                    = session[response'.client]["user_id"]]_vars

CourseCreatedBySecondUser ==
    /\ response.op = "create_course"
    /\ response.outcome = "CourseCreated"
    /\ Len(users) = 2
    /\ courses[Len(courses)].instructor_id = 2
    /\ session[response.client]["user_id"] = 2

\* C4: an enrollStudent call by an admin for a pair that an earlier call
\* enrolled fails with AlreadyEnrolled, adds no row, and the store holds
\* exactly one Enrollment row of that pair.
SecondEnrollRejected ==
    [][(response'.op = "enroll" /\ response'.outcome # "Enrolled") =>
        \A c \in {response'.client}, form \in EnrollForms :
            (/\ login_required(session[c])
             /\ role_required(session[c], "admin")
             /\ EnrollmentExists(form.student_id, form.course_id)
             /\ EnrollCheck(c, form)) =>
                /\ response'.outcome = "AlreadyEnrolled"
                /\ enrollments' = enrollments
                /\ PairCount(form.student_id, form.course_id) = 1]_vars

\* C5: every Enrollment row refers to a stored Student and a stored Course
\* (an enrollStudent call naming an id of no row creates no Enrollment).
EnrollmentsReferToRows ==
    \A i \in Ids(enrollments) :
        /\ enrollments[i].student_id \in Ids(students)
        /\ enrollments[i].course_id \in Ids(courses)

\* C6: the dashboard's myCourses is the number of Courses of the session's
\* user for an instructor, the number of Enrollments of the Student whose
\* email is that of the session's User for a student, and 0 for other roles.
ExpectedMyCourses(s) ==
    IF s["user_role"] = "instructor" THEN CoursesOf(s["user_id"])
    ELSE IF s["user_role"] = "student"
    THEN LET student == StudentByEmail(users[s["user_id"]].email) IN
         IF student # 0 THEN EnrollmentsOf(student) ELSE 0
    ELSE 0

DashboardMyCourses ==
    (response.op = "dashboard" /\ response.outcome = "Dashboard") =>
        response.user_courses = ExpectedMyCourses(session[response.client])

\* C7: a session is either empty or holds exactly the id, name and role of a
\* stored User; a client leaves Anonymous only by a login whose email is a
\* stored User's and whose password verifies against that User's hash, and
\* then holds that User's id, name and role; a login with an unknown email
\* or a password that does not verify stays Anonymous; logout always ends
\* Anonymous.
SessionStateMachine ==
    /\ [](\A c \in Clients :
            \/ DOMAIN session[c] = {}
            \/ /\ DOMAIN session[c] = {"user_id", "user_name", "user_role"}
               /\ session[c]["user_id"] \in Ids(users)
               /\ session[c]["user_name"] = users[session[c]["user_id"]].name
               /\ session[c]["user_role"] = users[session[c]["user_id"]].role)
    /\ [][(session' # session \/ response'.op \in {"login", "logout"}) =>
          \A c \in Clients :
            /\ (Anonymous(c) /\ ~AnonymousNext(c)) =>
                /\ response' = [client |-> c, op |-> "login",
                                outcome |-> "LoginOk", user_courses |-> 0]
                /\ \E form \in LoginForms, u \in Ids(users) :
                    /\ Login(c, form)
                    /\ users[u].email = form.email
                    /\ users[u].password = generate_password_hash(form.password)
                    /\ session'[c]["user_id"] = u
                    /\ session'[c]["user_name"] = users[u].name
                    /\ session'[c]["user_role"] = users[u].role
            /\ (response'.op = "login" /\ response'.client = c /\ Anonymous(c)) =>
                \A form \in LoginForms :
                    (/\ \A u \in Ids(users) :
                            \/ users[u].email # form.email
                            \/ users[u].password
                                    # generate_password_hash(form.password)
                     /\ Login(c, form)) =>
                        /\ AnonymousNext(c)
                        /\ response'.outcome = "InvalidCredentials"
            /\ (response'.op = "logout" /\ response'.client = c) =>
                AnonymousNext(c)]_vars

LoggedInAsSecondUser ==
    /\ response.op = "login"
    /\ response.outcome = "LoginOk"
    /\ session[response.client]["user_id"] = 2
    /\ \E c \in Clients : Anonymous(c)

\* C8: a createStudent call by an admin whose email is a stored Student's
\* fails with EmailTaken; one whose email is new and whose student_id is a
\* stored Student's fails with StudentIdTaken; a failing call leaves the
\* Student table as it was, and a call that succeeds adds exactly one row.
CreateStudentChecks ==
    [][response'.op = "create_student" =>
        \A c \in {response'.client}, form \in StudentForms :
            (/\ login_required(session[c])
             /\ role_required(session[c], "admin")
             /\ CreateStudent(c, form)) =>
                LET emailTaken ==
                        \E i \in Ids(students) : students[i].email = form.email
                    numberTaken ==
                        \E i \in Ids(students) :
                            students[i].student_id = form.student_id
                IN  /\ emailTaken =>
                        /\ response'.outcome = "EmailTaken"
                        /\ students' = students
                    /\ (~emailTaken /\ numberTaken) =>
                        /\ response'.outcome = "StudentIdTaken"
                        /\ students' = students
                    /\ (~emailTaken /\ ~numberTaken) =>
                        /\ response'.outcome = "StudentCreated"
                        /\ Len(students') = Len(students) + 1]_vars

StudentIdTakenSeen ==
    /\ response.op = "create_student"
    /\ response.outcome = "StudentIdTaken"
    /\ Len(students) >= 1

\* C9: no two Enrollment rows hold the same (student_id, course_id) pair.
EnrollmentPairUnique ==
    \A i, j \in Ids(enrollments) :
        (/\ enrollments[i].student_id = enrollments[j].student_id
         /\ enrollments[i].course_id = enrollments[j].course_id) => i = j

\* C10: every stored Course has credits that is a positive integer.
CreditsPositiveInteger ==
    \A i \in Ids(courses) :
        /\ courses[i].credits.class = "integer"
        /\ courses[i].credits.int > 0
=============================================================================
